---- MODULE Spec2Model ----
(***************************************************************************)
(* Model of scripts/blender_mesh_converter.py: the four mesh operations    *)
(* json_to_obj, obj_to_json, trim_edges and smooth_edges, the files they   *)
(* read and write, and the confirmation prompts of obj_to_json.            *)
(*                                                                         *)
(* Numbers.  A coordinate is a fixed-point number with three decimals,     *)
(* held as the integer count of thousandths (1500 is 1.5).  Values that    *)
(* smooth_edges computes are exact rationals [n |-> .., d |-> ..].         *)
(* Text.  A token is a sequence of one-character strings, a line is the    *)
(* sequence of its whitespace-separated tokens (line.split()), a file is   *)
(* a sequence of lines.                                                    *)
(***************************************************************************)
EXTENDS Integers, Sequences, FiniteSets, TLC

VARIABLES pc, op, jsonIn, objFile, edited, jsonOut, result, params,
          vertices, faces_from_obj, faces, prompts, answers

vars == <<pc, op, jsonIn, objFile, edited, jsonOut, result, params,
          vertices, faces_from_obj, faces, prompts, answers>>

(***************************************************************************)
(* Bounds of the explored inputs.                                          *)
(***************************************************************************)
MaxExportV == 2
MaxExportF == 1
MaxV == 3
MaxF == 1
MaxInner == 3

(***************************************************************************)
(* Arithmetic helpers.                                                     *)
(***************************************************************************)
Abs(a) == IF a < 0 THEN -a ELSE a

Min2(a, b) == IF a <= b THEN a ELSE b

Max2(a, b) == IF a >= b THEN a ELSE b

RECURSIVE Gcd(_, _)
Gcd(a, b) == IF b = 0 THEN a ELSE Gcd(b, a % b)

\* The rational a/b (b # 0) in lowest terms with a positive denominator.
Rat(a, b) ==
    LET g == Gcd(Abs(a), Abs(b))
        s == IF b < 0 THEN -1 ELSE 1
    IN  [n |-> (s * a) \div g, d |-> (s * b) \div g]

RInt(a) == [n |-> a, d |-> 1]

RAdd(p, q) == Rat(p.n * q.d + q.n * p.d, p.d * q.d)

RSub(p, q) == Rat(p.n * q.d - q.n * p.d, p.d * q.d)

RMul(p, q) == Rat(p.n * q.n, p.d * q.d)

RDiv(p, q) == Rat(p.n * q.d, p.d * q.n)

RLt(p, q) == p.n * q.d < q.n * p.d

RLe(p, q) == p.n * q.d <= q.n * p.d

RMin(p, q) == IF RLe(p, q) THEN p ELSE q

RECURSIVE SeqSum(_)
SeqSum(s) == IF s = <<>> THEN 0 ELSE Head(s) + SeqSum(Tail(s))

RECURSIVE SeqMin(_)
SeqMin(s) == IF Len(s) = 1 THEN s[1] ELSE Min2(Head(s), SeqMin(Tail(s)))

RECURSIVE SeqMax(_)
SeqMax(s) == IF Len(s) = 1 THEN s[1] ELSE Max2(Head(s), SeqMax(Tail(s)))

RECURSIVE Flatten(_)
Flatten(ss) == IF ss = <<>> THEN <<>> ELSE Head(ss) \o Flatten(Tail(ss))

\* All sequences of length at most n over the set S.
RECURSIVE SeqsUpTo(_, _)
SeqsUpTo(S, n) ==
    IF n = 0 THEN {<<>>}
    ELSE LET shorter == SeqsUpTo(S, n - 1)
         IN  shorter \cup {Append(s, x) : s \in {t \in shorter : Len(t) = n - 1}, x \in S}

(***************************************************************************)
(* The Mesh of the JSON document: flat vertex and face lists.  NumV and    *)
(* NumF are the len(..) // 3 of the source; the 0-based accessors X, Y, Z  *)
(* read vertices[3i], vertices[3i+1], vertices[3i+2].                      *)
(***************************************************************************)
NumV(v) == Len(v) \div 3

NumF(f) == Len(f) \div 3

X(v, i) == v[3 * i + 1]

Y(v, i) == v[3 * i + 2]

Z(v, i) == v[3 * i + 3]

ValidMesh(m) ==
    /\ m.tri
    /\ Len(m.v) % 3 = 0
    /\ Len(m.f) % 3 = 0
    /\ \A k \in 1..Len(m.f) : m.f[k] \in 0..(NumV(m.v) - 1)

NoDoc == [tri |-> FALSE, v |-> <<>>, f |-> <<>>]

NoFile == [state |-> "absent", lines |-> <<>>]

NoJson == [state |-> "absent", v |-> <<>>, f |-> <<>>]

NoParams == [trim_percent |-> RInt(0), edge_distance |-> RInt(0), smooth_strength |-> RInt(0)]

(***************************************************************************)
(* Number formatting and parsing: str(), int() and float().                *)
(***************************************************************************)
Digits == <<"0", "1", "2", "3", "4", "5", "6", "7", "8", "9">>

DigitChar(d) == Digits[d + 1]

IsDigit(c) == \E d \in 0..9 : Digits[d + 1] = c

DigitVal(c) == CHOOSE d \in 0..9 : Digits[d + 1] = c

RECURSIVE FormatNat(_)
FormatNat(n) ==
    IF n < 10 THEN <<DigitChar(n)>>
    ELSE Append(FormatNat(n \div 10), DigitChar(n % 10))

\* str(n) of an integer, as in f"{v1}".
FormatInt(n) == IF n < 0 THEN <<"-">> \o FormatNat(-n) ELSE FormatNat(n)

\* The fraction digits of r thousandths (0 < r < 1000), trailing zeros dropped.
FormatFrac(r) ==
    IF r % 100 = 0 THEN <<DigitChar(r \div 100)>>
    ELSE IF r % 10 = 0 THEN <<DigitChar(r \div 100), DigitChar((r \div 10) % 10)>>
    ELSE <<DigitChar(r \div 100), DigitChar((r \div 10) % 10), DigitChar(r % 10)>>

\* A coordinate written with two decimals, as the f"{x:.2f}" of the report
\* lines 80-82 would.
FormatFloat_TwoDecimals(k) ==
    LET a == (Abs(k) \div 10) * 10
        whole == FormatNat(a \div 1000)
        body == IF a % 1000 = 0 THEN whole ELSE whole \o <<".">> \o FormatFrac(a % 1000)
    IN  IF k < 0 THEN <<"-">> \o body ELSE body

\* f"{x}" of a coordinate of k thousandths: "2", "-1.5", "0.007".
FormatFloat(k) ==
    LET a == Abs(k)
        whole == FormatNat(a \div 1000)
        body == IF a % 1000 = 0 THEN whole ELSE whole \o <<".">> \o FormatFrac(a % 1000)
    IN  IF k < 0 THEN <<"-">> \o body ELSE body

RECURSIVE ParseNat(_)
ParseNat(cs) ==
    IF Len(cs) = 1 THEN DigitVal(cs[1])
    ELSE 10 * ParseNat(SubSeq(cs, 1, Len(cs) - 1)) + DigitVal(cs[Len(cs)])

AllDigits(cs) == cs # <<>> /\ \A k \in 1..Len(cs) : IsDigit(cs[k])

Bad == [ok |-> FALSE, val |-> 0]

Good(n) == [ok |-> TRUE, val |-> n]

\* int(s): an optional sign and decimal digits, anything else is a ValueError.
ParseInt(cs) ==
    LET neg == cs # <<>> /\ cs[1] = "-"
        body == IF neg THEN Tail(cs) ELSE cs
    IN  IF AllDigits(body) THEN Good(IF neg THEN -ParseNat(body) ELSE ParseNat(body))
        ELSE Bad

\* Position of the first occurrence of c in cs, or 0.
IndexOf(cs, c) ==
    IF \E k \in 1..Len(cs) : cs[k] = c
    THEN CHOOSE k \in 1..Len(cs) : cs[k] = c /\ \A j \in 1..(k - 1) : cs[j] # c
    ELSE 0

\* float(s) in thousandths: sign, digits, and at most three fraction digits;
\* anything else is a ValueError.
ParseFloat(cs) ==
    LET neg == cs # <<>> /\ cs[1] = "-"
        body == IF neg THEN Tail(cs) ELSE cs
        dot == IndexOf(body, ".")
        whole == IF dot = 0 THEN body ELSE SubSeq(body, 1, dot - 1)
        frac == IF dot = 0 THEN <<>> ELSE SubSeq(body, dot + 1, Len(body))
        scale == IF Len(frac) = 1 THEN 100 ELSE IF Len(frac) = 2 THEN 10 ELSE 1
        mag == 1000 * ParseNat(whole) + (IF dot = 0 THEN 0 ELSE scale * ParseNat(frac))
    IN  IF AllDigits(whole) /\ (dot = 0 \/ (AllDigits(frac) /\ Len(frac) <= 3))
        THEN Good(IF neg THEN -mag ELSE mag)
        ELSE Bad

\* s.split('/')[0]
BeforeSlash(cs) ==
    LET k == IndexOf(cs, "/") IN IF k = 0 THEN cs ELSE SubSeq(cs, 1, k - 1)

(***************************************************************************)
(* OBJ text.                                                               *)
(***************************************************************************)
CommentLine == << <<"#">> >>

BlankLine == <<>>

\* Lines 88-94: seven comment lines and a blank line.
Header == <<CommentLine, CommentLine, CommentLine, CommentLine,
            CommentLine, CommentLine, CommentLine, BlankLine>>

VertexLine(x, y, z) == << <<"v">>, FormatFloat(x), FormatFloat(y), FormatFloat(z) >>

FaceLine(a, b, c) == << <<"f">>, FormatInt(a + 1), FormatInt(b + 1), FormatInt(c + 1) >>

VertexLines(v) == [i \in 1..NumV(v) |-> VertexLine(X(v, i - 1), Y(v, i - 1), Z(v, i - 1))]

\* The face lines written before the loop of lines 104-106 ends or fails.
FaceLines(f) == [i \in 1..NumF(f) |-> FaceLine(f[3 * i - 2], f[3 * i - 1], f[3 * i])]

IsVertexLine(line) == Len(line) >= 2 /\ line[1] = <<"v">>

IsFaceLine(line) == Len(line) >= 2 /\ line[1] = <<"f">>

(***************************************************************************)
(* Results of a run: a normal return, an uncaught exception (reported by   *)
(* the handler of lines 549-557, exit status 1) or sys.exit(1).            *)
(***************************************************************************)
None == [kind |-> "none", what |-> ""]

Return(path) == [kind |-> "return", what |-> path]

Raise(exc) == [kind |-> "raise", what |-> exc]

Exit1 == [kind |-> "exit", what |-> "1"]

Failed(r) == r.kind \in {"raise", "exit"}

(***************************************************************************)
(* json_to_obj, lines 31-123.                                              *)
(***************************************************************************)
\* The exception of lines 54-77, raised before the output file is opened.
ExportPrecheck(doc) ==
    IF ~doc.tri THEN Raise("ValueError")
    ELSE IF doc.v = <<>> THEN Raise("ValueError")
    ELSE IF Len(doc.v) % 3 # 0 THEN Raise("IndexError")
    ELSE None

\* What lines 87-106 leave in the OBJ file: the loop over the faces fails on
\* a trailing incomplete triple after the lines before it were written.
ExportFile(doc) ==
    IF Failed(ExportPrecheck(doc)) THEN NoFile
    ELSE [state |-> IF Len(doc.f) % 3 = 0 THEN "complete" ELSE "partial",
          lines |-> Header \o VertexLines(doc.v) \o <<BlankLine>> \o FaceLines(doc.f)]

ExportResult(doc) ==
    IF Failed(ExportPrecheck(doc)) THEN ExportPrecheck(doc)
    ELSE IF Len(doc.f) % 3 # 0 THEN Raise("IndexError")
    ELSE Return("obj_path")

(***************************************************************************)
(* Inputs of json_to_obj: JSON documents, valid meshes and broken ones.    *)
(***************************************************************************)
\* The vertices of the exported meshes: -1.5, 0.007, 2 and 0 as coordinates.
ExportVertices == {<<-1500, 7, 2000>>, <<7, -1500, 0>>}

\* Index triples a <= b <= c over nv vertices.
Triples(nv) ==
    {t \in [1..3 -> 0..(nv - 1)] : t[1] <= t[2] /\ t[2] <= t[3]}

VertexSet(XY, ZS) == {<<x, y, z>> : x \in XY, y \in XY, z \in ZS}

\* Those with at least two different vertices.
EdgeTriples(nv) == {t \in Triples(nv) : t[1] < t[3]}

\* The triangle fan 0-1-2, 0-2-3, .. over nv vertices.
FanFaces(nv) == Flatten([k \in 1..(IF nv < 3 THEN 0 ELSE nv - 2) |-> <<0, k, k + 1>>])

FaceLists(T(_), nv, n) == {Flatten(s) : s \in SeqsUpTo(T(nv), n)}

\* The meshes whose vertex list is one of VSeqs (sequences of at most maxv
\* vertices) and whose faces are at most maxf of the triples T.
Meshes(VSeqs, maxv, T(_), maxf) ==
    LET fl == [n \in 0..maxv |-> FaceLists(T, n, maxf)]
    IN  UNION {{[tri |-> TRUE, v |-> Flatten(vs), f |-> f] : f \in fl[Len(vs)]} : vs \in VSeqs}

DropLast(s) == SubSeq(s, 1, Len(s) - 1)

\* Documents json_to_obj rejects or fails on: no 'triangles' key, a vertex
\* list or a face list whose length is not a multiple of three.
Broken(m) ==
    {[m EXCEPT !.tri = FALSE]}
        \cup (IF m.v # <<>> /\ m.f = <<>> THEN {[m EXCEPT !.v = DropLast(m.v)]} ELSE {})
        \cup (IF m.f # <<>> THEN {[m EXCEPT !.f = DropLast(m.f)]} ELSE {})

ExportMeshes(maxv, maxf) == Meshes(SeqsUpTo(ExportVertices, maxv), maxv, EdgeTriples, maxf)

ExportDocs(maxv, maxf) ==
    ExportMeshes(maxv, maxf) \cup UNION {Broken(m) : m \in ExportMeshes(maxv, maxf)}

(***************************************************************************)
(* Edits of the exported OBJ file made outside the program (the editor     *)
(* between to-obj and to-json).                                            *)
(***************************************************************************)
\* Moves of a coordinate in thousandths: X and Y (tokens 2, 3) by 0.001 or
\* 0.002, Z (token 4) by 5.
Moves(ti) == IF ti = 4 THEN {5000} ELSE {1, 2}

SetToken(lines, li, ti, tok) == [lines EXCEPT ![li] = [@ EXCEPT ![ti] = tok]]

RemoveAt(s, k) == SubSeq(s, 1, k - 1) \o SubSeq(s, k + 1, Len(s))

\* Move one coordinate of a vertex line by d thousandths.
Nudge(lines, li, ti, d) ==
    SetToken(lines, li, ti, FormatFloat(ParseFloat(lines[li][ti]).val + d))

\* Face tokens in the "i/t/n" form.
WithSlashes(lines) ==
    [li \in 1..Len(lines) |->
        IF IsFaceLine(lines[li])
        THEN [ti \in 1..Len(lines[li]) |->
                 IF ti = 1 THEN lines[li][ti] ELSE lines[li][ti] \o <<"/", "1", "/", "1">>]
        ELSE lines[li]]

\* The 1-based vertex number of the vertex line at position li.
VertexNumber(lines, li) == Cardinality({k \in 1..li : IsVertexLine(lines[k])})

RefersTo(line, n) ==
    IsFaceLine(line) /\ \E ti \in 2..Len(line) : BeforeSlash(line[ti]) = FormatInt(n)

RECURSIVE WithoutFacesOf(_, _)
WithoutFacesOf(lines, n) ==
    IF lines = <<>> THEN <<>>
    ELSE IF RefersTo(Head(lines), n) THEN WithoutFacesOf(Tail(lines), n)
    ELSE <<Head(lines)>> \o WithoutFacesOf(Tail(lines), n)

\* Delete a vertex together with the faces that use it.
Dissolve(lines, li) == WithoutFacesOf(RemoveAt(lines, li), VertexNumber(lines, li))

\* The vertex line with the 1-based vertex number n.
VertexLineOf(lines, n) ==
    CHOOSE li \in 1..Len(lines) : IsVertexLine(lines[li]) /\ VertexNumber(lines, li) = n

\* Split a vertex: the corner ti of the face line li gets its own copy of
\* the vertex, appended as a new vertex.
Rip(lines, li, ti) ==
    LET n == ParseInt(lines[li][ti]).val
        count == VertexNumber(lines, Len(lines))
    IN  Append(SetToken(lines, li, ti, FormatInt(count + 1)), lines[VertexLineOf(lines, n)])

Edits(lines) ==
    LET data == {li \in 1..Len(lines) : IsVertexLine(lines[li]) \/ IsFaceLine(lines[li])}
        vs == {li \in data : IsVertexLine(lines[li])}
    IN  UNION {{Nudge(lines, li, ti, d) : d \in Moves(ti)} : li \in vs, ti \in 2..4}
        \cup {RemoveAt(lines, li) : li \in data}
        \cup {Append(lines, lines[li]) : li \in data}
        \cup {Dissolve(lines, li) : li \in vs}
        \cup {SetToken(lines, li, 2, <<"x">>) : li \in data}
        \cup {[lines EXCEPT ![li] = DropLast(@)] : li \in data}
        \cup {WithSlashes(lines)}
        \cup {Rip(lines, li, ti) : li \in data \ vs, ti \in 2..4}

(***************************************************************************)
(* obj_to_json, lines 126-252.                                             *)
(***************************************************************************)
\* Lines 167-171: the three floats of a vertex line, or a ValueError; a line
\* with fewer than four tokens adds nothing.
ParseVertex(line) ==
    IF Len(line) < 4 THEN [ok |-> TRUE, vals |-> <<>>]
    ELSE LET a == ParseFloat(line[2])
             b == ParseFloat(line[3])
             c == ParseFloat(line[4])
         IN  IF a.ok /\ b.ok /\ c.ok THEN [ok |-> TRUE, vals |-> <<a.val, b.val, c.val>>]
             ELSE [ok |-> FALSE, vals |-> <<>>]

\* Lines 172-179: the three 0-based indices of a face line.
ParseFace(line) ==
    IF Len(line) < 4 THEN [ok |-> TRUE, vals |-> <<>>]
    ELSE LET a == ParseInt(BeforeSlash(line[2]))
             b == ParseInt(BeforeSlash(line[3]))
             c == ParseInt(BeforeSlash(line[4]))
         IN  IF a.ok /\ b.ok /\ c.ok
             THEN [ok |-> TRUE, vals |-> <<a.val - 1, b.val - 1, c.val - 1>>]
             ELSE [ok |-> FALSE, vals |-> <<>>]

\* Lines 160-179: the parse of the whole file.
RECURSIVE ParseObj(_)
ParseObj(lines) ==
    IF lines = <<>> THEN [ok |-> TRUE, v |-> <<>>, f |-> <<>>]
    ELSE LET line == Head(lines)
             rest == ParseObj(Tail(lines))
             pv == IF IsVertexLine(line) THEN ParseVertex(line) ELSE [ok |-> TRUE, vals |-> <<>>]
             pf == IF IsFaceLine(line) THEN ParseFace(line) ELSE [ok |-> TRUE, vals |-> <<>>]
         IN  [ok |-> pv.ok /\ pf.ok /\ rest.ok,
              v |-> pv.vals \o rest.v,
              f |-> pf.vals \o rest.f]

\* Line 184 and line 189.
VertexCountDiffers(v, ref) == NumV(v) # NumV(ref.v)

FaceCountDiffers(ffo, ref) == Len(ffo) # Len(ref.f)

\* The face counts compared with == instead of !=.
TopologyMismatch_FacesEqual(v, ffo, ref) ==
    VertexCountDiffers(v, ref) /\ ~FaceCountDiffers(ffo, ref)

TopologyMismatch(v, ffo, ref) == VertexCountDiffers(v, ref) /\ FaceCountDiffers(ffo, ref)

\* The original's faces whatever the vertex counts.
ResolveFaces_AlwaysOriginal(v, ffo, ref) == ref.f

\* Lines 184-204: the face list the output gets.
ResolveFaces(v, ffo, ref) == IF VertexCountDiffers(v, ref) THEN ffo ELSE ref.f

\* Lines 207-216: max_xy_diff over the vertices both lists have.
RECURSIVE MaxXYDiff(_, _, _)
MaxXYDiff(v, ov, n) ==
    IF n = 0 THEN 0
    ELSE Max2(MaxXYDiff(v, ov, n - 1),
              Max2(Abs(X(v, n - 1) - X(ov, n - 1)), Abs(Y(v, n - 1) - Y(ov, n - 1))))

max_xy_diff(v, ov) == MaxXYDiff(v, ov, Min2(NumV(v), NumV(ov)))

\* Line 218: the tolerance 0.001, in thousandths.
Tolerance == 1

\* The tolerance compared with >= instead of >.
DriftExceeds_Inclusive(v, ov) == max_xy_diff(v, ov) >= Tolerance

DriftExceeds(v, ov) == max_xy_diff(v, ov) > Tolerance

\* Lines 196 and 223: response.lower() != 'y'.
Responses == {"y", "Y", "n", ""}

Lower(r) == IF r = "Y" THEN "y" ELSE r

Confirms(r) == Lower(r) = "y"

(***************************************************************************)
(* Bounds of the vertices in X and Y, lines 287-294 and 374-381.           *)
(***************************************************************************)
Xs(v) == [i \in 1..NumV(v) |-> X(v, i - 1)]

Ys(v) == [i \in 1..NumV(v) |-> Y(v, i - 1)]

Bounds(v) ==
    [min_x |-> SeqMin(Xs(v)), max_x |-> SeqMax(Xs(v)),
     min_y |-> SeqMin(Ys(v)), max_y |-> SeqMax(Ys(v))]

(***************************************************************************)
(* trim_edges, lines 255-342.                                              *)
(***************************************************************************)
\* Lines 297-303: the inset box.
TrimBox(v, p) ==
    LET b == Bounds(v)
        trim_x == RMul(RInt(b.max_x - b.min_x), p)
        trim_y == RMul(RInt(b.max_y - b.min_y), p)
    IN  [new_min_x |-> RAdd(RInt(b.min_x), trim_x),
         new_max_x |-> RSub(RInt(b.max_x), trim_x),
         new_min_y |-> RAdd(RInt(b.min_y), trim_y),
         new_max_y |-> RSub(RInt(b.max_y), trim_y)]

\* Line 312: new_min_x <= x <= new_max_x and new_min_y <= y <= new_max_y.
Inside(box, x, y) ==
    /\ RLe(box.new_min_x, RInt(x))
    /\ RLe(RInt(x), box.new_max_x)
    /\ RLe(box.new_min_y, RInt(y))
    /\ RLe(RInt(y), box.new_max_y)

\* Lines 309-313.
vertex_inside(v, p) ==
    LET box == TrimBox(v, p)
    IN  [i \in 0..(NumV(v) - 1) |-> Inside(box, X(v, i), Y(v, i))]

\* Lines 316-320: the faces kept, in their order; n is the number of input
\* faces looked at.
RECURSIVE KeptFaces(_, _, _)
KeptFaces(inside, f, n) ==
    IF n = 0 THEN <<>>
    ELSE KeptFaces(inside, f, n - 1)
            \o (IF inside[f[3 * n - 2]] /\ inside[f[3 * n - 1]] /\ inside[f[3 * n]]
                THEN <<f[3 * n - 2], f[3 * n - 1], f[3 * n]>>
                ELSE <<>>)

new_faces(v, p, f) == KeptFaces(vertex_inside(v, p), f, NumF(f))

\* Line 325 divides by num_faces_original.
TrimResult(m) ==
    IF NumF(m.f) = 0 THEN Raise("ZeroDivisionError") ELSE Return("output_path")

\* Lines 328-338.
TrimOutput(m, p) ==
    IF Failed(TrimResult(m)) THEN NoJson
    ELSE [state |-> "complete", v |-> m.v, f |-> new_faces(m.v, p, m.f)]

(***************************************************************************)
(* smooth_edges, lines 345-453.                                            *)
(***************************************************************************)
\* Lines 374-385: the bounds and the widths of the edge zone.
EdgeBox(v, e) ==
    LET b == Bounds(v)
    IN  [min_x |-> b.min_x, max_x |-> b.max_x, min_y |-> b.min_y, max_y |-> b.max_y,
         edge_x |-> RMul(RInt(b.max_x - b.min_x), e),
         edge_y |-> RMul(RInt(b.max_y - b.min_y), e)]

\* Lines 393-395.
IsInterior(box, x, y, z) ==
    /\ RLt(RAdd(RInt(box.min_x), box.edge_x), RInt(x))
    /\ RLt(RInt(x), RSub(RInt(box.max_x), box.edge_x))
    /\ RLt(RAdd(RInt(box.min_y), box.edge_y), RInt(y))
    /\ RLt(RInt(y), RSub(RInt(box.max_y), box.edge_y))
    /\ z > 0

\* Lines 388-396: the elevations of the interior vertices among the first n.
RECURSIVE InteriorUpTo(_, _, _)
InteriorUpTo(v, box, n) ==
    IF n = 0 THEN <<>>
    ELSE InteriorUpTo(v, box, n - 1)
            \o (IF IsInterior(box, X(v, n - 1), Y(v, n - 1), Z(v, n - 1))
                THEN <<Z(v, n - 1)>>
                ELSE <<>>)

interior_elevations(v, e) == IF v = <<>> THEN <<>> ELSE InteriorUpTo(v, EdgeBox(v, e), NumV(v))

\* Lines 402-404.
InteriorStats(ie) ==
    [avg_elevation |-> Rat(SeqSum(ie), Len(ie)),
     min_interior |-> SeqMin(ie),
     max_interior |-> SeqMax(ie)]

\* Lines 414-417: a normalized distance, 1 when the edge width is not positive.
Dist(a, edge) == IF RLt(RInt(0), edge) THEN RDiv(RInt(a), edge) ELSE RInt(1)

\* Line 419.
min_dist(box, x, y) ==
    RMin(RMin(Dist(x - box.min_x, box.edge_x), Dist(box.max_x - x, box.edge_x)),
         RMin(Dist(y - box.min_y, box.edge_y), Dist(box.max_y - y, box.edge_y)))

\* The edge zone with its inner boundary included.
InEdgeZone_Inclusive(box, x, y) == RLe(min_dist(box, x, y), RInt(1))

\* Line 421.
InEdgeZone(box, x, y) == RLt(min_dist(box, x, y), RInt(1))

\* Line 428: z <= 0 or z < min_interior * 0.8 or z > max_interior * 1.2.
IsOutlier(st, z) ==
    \/ z <= 0
    \/ RLt(RInt(z), RMul(RInt(st.min_interior), Rat(4, 5)))
    \/ RLt(RMul(RInt(st.max_interior), Rat(6, 5)), RInt(z))

\* The blend at full strength over the whole edge zone, without the decay
\* by the distance from the edge.
NewElevation_NoDecay(box, st, s, x, y, z) ==
    IF IsOutlier(st, z) THEN st.avg_elevation
    ELSE RAdd(RInt(z), RMul(RSub(st.avg_elevation, RInt(z)), s))

\* Lines 430-434: the elevation written for a vertex of the edge zone.
NewElevation(box, st, s, x, y, z) ==
    IF IsOutlier(st, z) THEN st.avg_elevation
    ELSE RAdd(RInt(z),
              RMul(RMul(RSub(st.avg_elevation, RInt(z)), s),
                   RSub(RInt(1), min_dist(box, x, y))))

\* The assignment to vertices[i] instead of vertices[i + 2].
ElevationIndex_X(i) == 3 * i + 1

\* Lines 430 and 434 assign vertices[i + 2]; here the 1-based position.
ElevationIndex(i) == 3 * i + 3

\* Lines 371 and 410-434: the copy of the vertex list after the loop, every
\* number as a rational.
SmoothedVertices(v, e, s) ==
    LET box == EdgeBox(v, e)
        st == InteriorStats(interior_elevations(v, e))
        zone == {i \in 0..(NumV(v) - 1) : InEdgeZone(box, X(v, i), Y(v, i))}
    IN  [k \in 1..Len(v) |->
            IF \E i \in zone : ElevationIndex(i) = k
            THEN LET i == CHOOSE j \in zone : ElevationIndex(j) = k
                 IN  NewElevation(box, st, s, X(v, i), Y(v, i), Z(v, i))
            ELSE RInt(v[k])]

\* Lines 398-400: without interior vertices the function returns its input
\* path and writes nothing.
SmoothResult(m, e) ==
    IF interior_elevations(m.v, e) = <<>> THEN Return("json_path") ELSE Return("output_path")

\* Lines 439-449.
SmoothOutput(m, e, s) ==
    IF interior_elevations(m.v, e) = <<>> THEN NoJson
    ELSE [state |-> "complete", v |-> SmoothedVertices(m.v, e, s), f |-> m.f]

(***************************************************************************)
(* Inputs of trim_edges and smooth_edges: valid meshes whose vertices come *)
(* in scan order (sorted by x, then y, then z), and parameters.            *)
(***************************************************************************)
ScanLe(a, b) ==
    \/ a[1] < b[1]
    \/ a[1] = b[1] /\ a[2] < b[2]
    \/ a[1] = b[1] /\ a[2] = b[2] /\ a[3] <= b[3]

RECURSIVE ScanSeqs(_, _)
ScanSeqs(VS, n) ==
    IF n = 0 THEN {<<>>}
    ELSE LET shorter == ScanSeqs(VS, n - 1)
             longest == {t \in shorter : Len(t) = n - 1}
         IN  shorter \cup
             {Append(p[1], p[2]) :
                 p \in {q \in longest \X VS : q[1] = <<>> \/ ScanLe(q[1][Len(q[1])], q[2])}}

GridXY == 0..2

Elevations == {0, 5, 6}

TrimMeshes(maxv, maxf) == Meshes(ScanSeqs(VertexSet(GridXY, {0}), maxv), maxv, Triples, maxf)

SmoothMeshes(maxv) ==
    {[tri |-> TRUE, v |-> Flatten(vs), f |-> FanFaces(Len(vs))] :
        vs \in ScanSeqs(VertexSet(GridXY, Elevations), maxv)}

TrimPercents == {Rat(0, 1), Rat(1, 4), Rat(1, 2)}

EdgeDistances == {Rat(-1, 4), Rat(1, 4)}

SmoothStrengths == {Rat(1, 2), Rat(1, 1)}

\* Meshes on a 4 x 4 extent: the corners (0, 0) and (4, 4) fix the bounds,
\* and at most maxinner vertices lie on the line y = 2 at x = 1, 2, 3, so
\* that with edge_distance 3/8 the vertex at x = 2 is interior and those at
\* x = 1 and x = 3 are in the edge zone at distance 2/3.
InnerVertices == {<<x, 2, z>> : x \in 1..3, z \in {3, 4, 5, 6, 7}}

FramedMeshes(maxinner) ==
    {[tri |-> TRUE,
      v |-> Flatten(<<<<0, 0, c>>>> \o vs \o <<<<4, 4, 5>>>>),
      f |-> FanFaces(Len(vs) + 2)] :
        c \in {0, 5}, vs \in ScanSeqs(InnerVertices, maxinner)}

FramedEdgeDistances == {Rat(1, 8), Rat(3, 8)}

BlendStrengths == {Rat(0, 1), Rat(1, 2), Rat(1, 1)}

(***************************************************************************)
(* The state machine.  pc is "idle" before a command, "ask_topology" and   *)
(* "ask_drift" while obj_to_json waits in input() at lines 195 and 222,    *)
(* and "done" when the command has ended with `result`.                    *)
(***************************************************************************)
Init ==
    /\ pc = "idle"
    /\ op = "none"
    /\ jsonIn = NoDoc
    /\ objFile = NoFile
    /\ edited = FALSE
    /\ jsonOut = NoJson
    /\ result = None
    /\ params = NoParams
    /\ vertices = <<>>
    /\ faces_from_obj = <<>>
    /\ faces = <<>>
    /\ prompts = <<>>
    /\ answers = <<>>

\* The command to-obj on the document doc.
json_to_obj ==
    /\ pc = "idle"
    /\ \E doc \in ExportDocs(MaxExportV, MaxExportF) :
          /\ jsonIn' = doc
          /\ objFile' = ExportFile(doc)
          /\ result' = ExportResult(doc)
    /\ op' = "to-obj"
    /\ pc' = "done"
    /\ UNCHANGED <<edited, jsonOut, params, vertices, faces_from_obj, faces, prompts, answers>>

\* The exported file is edited and saved once by the external editor.
BlenderEdit ==
    /\ op = "to-obj"
    /\ pc = "done"
    /\ objFile.state = "complete"
    /\ ~edited
    /\ \E lines \in Edits(objFile.lines) : objFile' = [objFile EXCEPT !.lines = lines]
    /\ edited' = TRUE
    /\ UNCHANGED <<pc, op, jsonIn, jsonOut, result, params, vertices, faces_from_obj, faces,
                   prompts, answers>>

\* Lines 231-252: the output document is built and written.
WriteJson(v, fs) ==
    /\ jsonOut' = [state |-> "complete", v |-> v, f |-> fs]
    /\ result' = Return("output_json_path")
    /\ pc' = "done"

\* Lines 206-229 and what follows: the drift check on the parsed vertices v,
\* with fs the resolved faces.
DriftCheck(v, fs) ==
    IF DriftExceeds(v, jsonIn.v)
    THEN /\ prompts' = Append(prompts, [kind |-> "geo", magnitude |-> max_xy_diff(v, jsonIn.v)])
         /\ pc' = "ask_drift"
         /\ result' = None
         /\ UNCHANGED jsonOut
    ELSE /\ WriteJson(v, fs)
         /\ UNCHANGED prompts

\* The command to-json on the OBJ file, with the exported document as the
\* original: lines 141-204, then the drift check.
obj_to_json ==
    /\ op = "to-obj"
    /\ pc = "done"
    /\ objFile.state = "complete"
    /\ op' = "to-json"
    /\ LET parsed == ParseObj(objFile.lines)
       IN  IF ~parsed.ok
           THEN /\ result' = Raise("ValueError")
                /\ pc' = "done"
                /\ UNCHANGED <<jsonOut, vertices, faces_from_obj, faces, prompts>>
           ELSE /\ vertices' = parsed.v
                /\ faces_from_obj' = parsed.f
                /\ IF TopologyMismatch(parsed.v, parsed.f, jsonIn)
                   THEN /\ prompts' = Append(prompts, [kind |-> "topology", magnitude |-> 0])
                        /\ pc' = "ask_topology"
                        /\ result' = None
                        /\ UNCHANGED <<jsonOut, faces>>
                   ELSE /\ faces' = ResolveFaces(parsed.v, parsed.f, jsonIn)
                        /\ DriftCheck(parsed.v, ResolveFaces(parsed.v, parsed.f, jsonIn))
    /\ UNCHANGED <<jsonIn, objFile, edited, params, answers>>

\* Lines 195-200: the answer to "Continue anyway?" after a topology mismatch.
AnswerTopology ==
    /\ pc = "ask_topology"
    /\ \E r \in Responses :
          /\ answers' = Append(answers, r)
          /\ IF ~Confirms(r)
             THEN /\ result' = Exit1
                  /\ pc' = "done"
                  /\ UNCHANGED <<jsonOut, faces, prompts>>
             ELSE /\ faces' = faces_from_obj
                  /\ DriftCheck(vertices, faces_from_obj)
    /\ UNCHANGED <<op, jsonIn, objFile, edited, params, vertices, faces_from_obj>>

\* Lines 222-225: the answer to "Continue anyway?" after the drift warning.
AnswerDrift ==
    /\ pc = "ask_drift"
    /\ \E r \in Responses :
          /\ answers' = Append(answers, r)
          /\ IF ~Confirms(r)
             THEN /\ result' = Exit1
                  /\ pc' = "done"
                  /\ UNCHANGED jsonOut
             ELSE WriteJson(vertices, faces)
    /\ UNCHANGED <<op, jsonIn, objFile, edited, params, vertices, faces_from_obj, faces, prompts>>

\* The command trim.
trim_edges ==
    /\ pc = "idle"
    /\ \E m \in TrimMeshes(MaxV, MaxF), p \in TrimPercents :
          /\ jsonIn' = m
          /\ params' = [NoParams EXCEPT !.trim_percent = p]
          /\ jsonOut' = TrimOutput(m, p)
          /\ result' = TrimResult(m)
    /\ op' = "trim"
    /\ pc' = "done"
    /\ UNCHANGED <<objFile, edited, vertices, faces_from_obj, faces, prompts, answers>>

\* The command smooth.
smooth_edges ==
    /\ pc = "idle"
    /\ \E m \in SmoothMeshes(MaxV), e \in EdgeDistances, s \in SmoothStrengths :
          /\ jsonIn' = m
          /\ params' = [NoParams EXCEPT !.edge_distance = e, !.smooth_strength = s]
          /\ jsonOut' = SmoothOutput(m, e, s)
          /\ result' = SmoothResult(m, e)
    /\ op' = "smooth"
    /\ pc' = "done"
    /\ UNCHANGED <<objFile, edited, vertices, faces_from_obj, faces, prompts, answers>>

\* The command smooth on a mesh with interior and edge-zone vertices at
\* several distances from the sides.
smooth_edges_framed ==
    /\ pc = "idle"
    /\ \E m \in FramedMeshes(MaxInner), e \in FramedEdgeDistances, s \in BlendStrengths :
          /\ jsonIn' = m
          /\ params' = [NoParams EXCEPT !.edge_distance = e, !.smooth_strength = s]
          /\ jsonOut' = SmoothOutput(m, e, s)
          /\ result' = SmoothResult(m, e)
    /\ op' = "smooth"
    /\ pc' = "done"
    /\ UNCHANGED <<objFile, edited, vertices, faces_from_obj, faces, prompts, answers>>

Next ==
    \/ json_to_obj
    \/ BlenderEdit
    \/ obj_to_json
    \/ AnswerTopology
    \/ AnswerDrift
    \/ trim_edges
    \/ smooth_edges
    \/ smooth_edges_framed

Spec == Init /\ [][Next]_vars

\* The conversion commands alone: to-obj, the external edit, to-json.
NextConvert ==
    \/ json_to_obj
    \/ BlenderEdit
    \/ obj_to_json
    \/ AnswerTopology
    \/ AnswerDrift

SpecConvert == Init /\ [][NextConvert]_vars

NextTrim == trim_edges

SpecTrim == Init /\ [][NextTrim]_vars

NextSmooth == smooth_edges

SpecSmooth == Init /\ [][NextSmooth]_vars

NextBlend == smooth_edges_framed

SpecBlend == Init /\ [][NextBlend]_vars

(***************************************************************************)
(* Properties.                                                             *)
(***************************************************************************)
ImportRan == op = "to-json"

\* to-json parsed the OBJ file without a ValueError; then `vertices` and
\* `faces_from_obj` hold what lines 160-179 read.
ParsedOk == ImportRan /\ result.kind # "raise"

ImportWrote == ImportRan /\ jsonOut.state = "complete"

NoDangling(out) == \A k \in 1..Len(out.f) : out.f[k] \in 0..(NumV(out.v) - 1)

\* C1: every mesh written by to-json, trim or smooth from a valid original
\* has all its face indices in 0..V-1, V the number of vertices written.
C1_NoDanglingFaces ==
    (jsonOut.state = "complete" /\ ValidMesh(jsonIn)) => NoDangling(jsonOut)

BothCountsDiffer ==
    /\ ParsedOk
    /\ NumV(vertices) # NumV(jsonIn.v)
    /\ NumF(faces_from_obj) # NumF(jsonIn.f)

FirstAnswerConfirms == answers # <<>> /\ answers[1] \in {"y", "Y"}

\* C3: when vertex count and face count both differ from the original,
\* to-json shows the topology prompt first, before the drift prompt and
\* before any write, and without a confirming answer it ends in exit 1
\* with no output written.
C3_TopologyRefused ==
    (ImportRan /\ BothCountsDiffer) =>
        /\ prompts # <<>> /\ prompts[1].kind = "topology"
        /\ pc = "ask_topology" => (jsonOut.state = "absent" /\ Len(prompts) = 1)
        /\ (pc = "done" /\ ~FirstAnswerConfirms) =>
              (result = Exit1 /\ jsonOut.state = "absent" /\ Len(prompts) = 1)

\* C3, witness: both counts differ, the answer was the empty default, the
\* run exited without output.
C3_Witness ==
    /\ ImportRan /\ BothCountsDiffer
    /\ pc = "done"
    /\ answers = <<"">>
    /\ result = Exit1
    /\ jsonOut.state = "absent"

\* C4: a command that ends in a failure leaves no output file, not even a
\* partial one.
C4_NoPartialOutput ==
    (pc = "done" /\ Failed(result)) =>
        IF op = "to-obj" THEN objFile.state = "absent" ELSE jsonOut.state = "absent"

\* C5: to-json on the unedited export of a valid mesh, with that mesh as
\* the original, ends without any prompt and writes the same vertices in
\* the same order and the same face list.
C5_RoundTrip ==
    (ImportRan /\ ~edited /\ ValidMesh(jsonIn)) =>
        /\ pc = "done"
        /\ result = Return("output_json_path")
        /\ prompts = <<>>
        /\ jsonOut.state = "complete"
        /\ NumV(jsonOut.v) = NumV(jsonIn.v)
        /\ jsonOut.v = jsonIn.v
        /\ jsonOut.f = jsonIn.f

\* C5, witness: a round trip of a mesh with two vertices and a face.
C5_Witness ==
    /\ ImportRan /\ ~edited /\ ValidMesh(jsonIn)
    /\ jsonOut.state = "complete"
    /\ NumV(jsonIn.v) = 2
    /\ jsonIn.f # <<>>

\* The triangles of a flat face list.
TrianglesOf(f) == [k \in 1..NumF(f) |-> <<f[3 * k - 2], f[3 * k - 1], f[3 * k]>>]

\* Vertex i of v lies in the bounding box inset by the fraction p of the
\* extent on each side, bounds included.
InInsetBox(v, p, i) ==
    LET b == Bounds(v)
        w == b.max_x - b.min_x
        h == b.max_y - b.min_y
    IN  /\ p.d * b.min_x + p.n * w <= p.d * X(v, i)
        /\ p.d * X(v, i) <= p.d * b.max_x - p.n * w
        /\ p.d * b.min_y + p.n * h <= p.d * Y(v, i)
        /\ p.d * Y(v, i) <= p.d * b.max_y - p.n * h

ExpectedTrim(m, p) ==
    LET Keep(t) == InInsetBox(m.v, p, t[1]) /\ InInsetBox(m.v, p, t[2]) /\ InInsetBox(m.v, p, t[3])
    IN  Flatten(SelectSeq(TrianglesOf(m.f), Keep))

TrimRan == op = "trim" /\ pc = "done"

InTrimDomain(p) == RLe(RInt(0), p) /\ RLt(p, Rat(1, 2))

\* C6: trim on a valid mesh with any number of faces and a fraction in
\* [0, 0.5) returns normally and writes the input vertices unchanged and
\* exactly the faces whose three vertices lie in the inset box, in order.
C6_TrimContract ==
    (TrimRan /\ ValidMesh(jsonIn) /\ InTrimDomain(params.trim_percent)) =>
        /\ result = Return("output_path")
        /\ jsonOut.state = "complete"
        /\ jsonOut.v = jsonIn.v
        /\ jsonOut.f = ExpectedTrim(jsonIn, params.trim_percent)

SmoothRan == op = "smooth" /\ pc = "done"

SmoothWrote == SmoothRan /\ jsonOut.state = "complete"

VertexIds(m) == 0..(NumV(m.v) - 1)

\* C7: what smooth writes has the input's vertex count, every X and Y of
\* the input at its place, and the input's face list.
C7_SmoothKeepsXYAndFaces ==
    SmoothWrote =>
        /\ Len(jsonOut.v) = Len(jsonIn.v)
        /\ \A i \in VertexIds(jsonIn) :
              /\ X(jsonOut.v, i) = RInt(X(jsonIn.v, i))
              /\ Y(jsonOut.v, i) = RInt(Y(jsonIn.v, i))
        /\ jsonOut.f = jsonIn.f

\* C7, witness: smooth wrote a mesh in which some elevation changed.
C7_Witness ==
    /\ SmoothWrote
    /\ jsonIn.f # <<>>
    /\ \E i \in VertexIds(jsonIn) : Z(jsonOut.v, i) # RInt(Z(jsonIn.v, i))

\* The normalized distance to each of the four sides is at least 1; an axis
\* whose edge width is not positive counts as 1.
FarFromEdges(box, x, y) ==
    /\ RLt(RInt(0), box.edge_x) =>
          (RLe(box.edge_x, RInt(x - box.min_x)) /\ RLe(box.edge_x, RInt(box.max_x - x)))
    /\ RLt(RInt(0), box.edge_y) =>
          (RLe(box.edge_y, RInt(y - box.min_y)) /\ RLe(box.edge_y, RInt(box.max_y - y)))

SmoothBox == EdgeBox(jsonIn.v, params.edge_distance)

\* C8: a vertex whose normalized minimum distance to the sides is at least
\* 1 keeps its elevation in what smooth writes, and no interior vertex is
\* in the edge zone.
C8_OutsideEdgeZoneUnchanged ==
    SmoothRan =>
        \A i \in VertexIds(jsonIn) :
            LET x == X(jsonIn.v, i)
                y == Y(jsonIn.v, i)
                z == Z(jsonIn.v, i)
            IN  /\ IsInterior(SmoothBox, x, y, z) =>
                      (FarFromEdges(SmoothBox, x, y) /\ ~InEdgeZone(SmoothBox, x, y))
                /\ (jsonOut.state = "complete" /\ FarFromEdges(SmoothBox, x, y)) =>
                      Z(jsonOut.v, i) = RInt(z)

\* C8, witness: smooth changed an elevation and left the elevation of a
\* vertex outside the edge zone alone.
C8_Witness ==
    /\ SmoothWrote
    /\ \E i \in VertexIds(jsonIn) : Z(jsonOut.v, i) # RInt(Z(jsonIn.v, i))
    /\ \E i \in VertexIds(jsonIn) :
          /\ FarFromEdges(SmoothBox, X(jsonIn.v, i), Y(jsonIn.v, i))
          /\ Z(jsonOut.v, i) = RInt(Z(jsonIn.v, i))

NoInteriorVertex ==
    \A i \in VertexIds(jsonIn) :
        ~IsInterior(SmoothBox, X(jsonIn.v, i), Y(jsonIn.v, i), Z(jsonIn.v, i))

\* C9: without any interior vertex smooth ends in an error reported to the
\* caller, not in a normal return, and writes nothing.
C9_NoInteriorIsError ==
    (SmoothRan /\ NoInteriorVertex) => (Failed(result) /\ jsonOut.state = "absent")

\* The drift check is reached: the parse succeeded and a topology mismatch,
\* if any, was confirmed.
DriftReached == ParsedOk /\ (BothCountsDiffer => FirstAnswerConfirms)

Shared == 0..(Min2(NumV(vertices), NumV(jsonIn.v)) - 1)

XYOff(i) ==
    Max2(Abs(X(vertices, i) - X(jsonIn.v, i)), Abs(Y(vertices, i) - Y(jsonIn.v, i)))

\* Some shared vertex is off by more than 0.001 in X or Y.
XYDrifted == \E i \in Shared : XYOff(i) > 1

LastPrompt == prompts[Len(prompts)]

LastAnswerConfirms == Len(answers) = Len(prompts) /\ answers[Len(answers)] \in {"y", "Y"}

\* C10: once to-json reaches the drift check, a drift over 0.001 in X or Y
\* of a shared vertex raises the geo prompt with the largest such drift and
\* nothing is written unless the answer confirms; without such a drift the
\* output is written with no geo prompt, whatever the change in Z.
C10_DriftValidation ==
    DriftReached =>
        IF XYDrifted
        THEN /\ prompts # <<>> /\ LastPrompt.kind = "geo"
             /\ \E i \in Shared : LastPrompt.magnitude = XYOff(i)
             /\ \A i \in Shared : XYOff(i) <= LastPrompt.magnitude
             /\ pc \in {"ask_drift", "done"}
             /\ pc = "ask_drift" => jsonOut.state = "absent"
             /\ (pc = "done" /\ ~LastAnswerConfirms) =>
                   (result = Exit1 /\ jsonOut.state = "absent")
             /\ (pc = "done" /\ LastAnswerConfirms) => jsonOut.state = "complete"
        ELSE /\ pc = "done"
             /\ jsonOut.state = "complete"
             /\ \A k \in 1..Len(prompts) : prompts[k].kind # "geo"

\* C10, witness: only an elevation moved, by more than the tolerance, and
\* the output was written without a prompt.
C10_Witness ==
    /\ DriftReached /\ ~XYDrifted
    /\ prompts = <<>>
    /\ jsonOut.state = "complete"
    /\ \E i \in Shared : Abs(Z(vertices, i) - Z(jsonIn.v, i)) > 1

\* The ids of the interior vertices of the input.
InteriorIds(box) ==
    {i \in VertexIds(jsonIn) :
        IsInterior(box, X(jsonIn.v, i), Y(jsonIn.v, i), Z(jsonIn.v, i))}

RECURSIVE SumZ(_)
SumZ(I) == IF I = {} THEN 0 ELSE LET i == CHOOSE j \in I : TRUE
                                 IN  Z(jsonIn.v, i) + SumZ(I \ {i})

\* avgElevation, minInterior and maxInterior over the interior vertices I.
InteriorSummary(I) ==
    LET zs == {Z(jsonIn.v, i) : i \in I}
    IN  [avgElevation |-> Rat(SumZ(I), Cardinality(I)),
         minInterior |-> CHOOSE z \in zs : \A w \in zs : z <= w,
         maxInterior |-> CHOOSE z \in zs : \A w \in zs : z >= w]

\* z <= 0, or z outside [0.8 x minInterior, 1.2 x maxInterior].
Replaced(sm, z) == z <= 0 \/ 5 * z < 4 * sm.minInterior \/ 5 * z > 6 * sm.maxInterior

\* z + (avgElevation - z) x smoothStrength x (1 - minDist).
Blended(sm, z, d) ==
    RAdd(RInt(z), RMul(RMul(RSub(sm.avgElevation, RInt(z)), params.smooth_strength),
                       RSub(RInt(1), d)))

\* z + (avgElevation - z) x smoothStrength.
FullBlend(sm, z) ==
    RAdd(RInt(z), RMul(RSub(sm.avgElevation, RInt(z)), params.smooth_strength))

RBetween(a, p, b) == (RLe(a, p) /\ RLe(p, b)) \/ (RLe(b, p) /\ RLe(p, a))

\* C11: in what smooth writes, every vertex with minDist < 1 whose
\* elevation z is <= 0 or outside [0.8 x minInterior, 1.2 x maxInterior] has
\* exactly avgElevation; every other vertex with minDist < 1 has
\* z + (avgElevation - z) x smoothStrength x (1 - minDist), which at
\* minDist = 0 is z + (avgElevation - z) x smoothStrength and, for
\* smoothStrength in [0, 1], lies between z and avgElevation.
C11_EdgeZoneRule ==
    SmoothWrote =>
        LET box == SmoothBox
            sm == InteriorSummary(InteriorIds(box))
        IN  \A i \in VertexIds(jsonIn) :
                LET z == Z(jsonIn.v, i)
                    d == min_dist(box, X(jsonIn.v, i), Y(jsonIn.v, i))
                    out == Z(jsonOut.v, i)
                IN  RLt(d, RInt(1)) =>
                        IF Replaced(sm, z) THEN out = sm.avgElevation
                        ELSE /\ out = Blended(sm, z, d)
                             /\ d = RInt(0) => out = FullBlend(sm, z)
                             /\ (RLe(RInt(0), params.smooth_strength)
                                    /\ RLe(params.smooth_strength, RInt(1))) =>
                                   RBetween(RInt(z), out, sm.avgElevation)

\* C11, witness: one output holds a replaced outlier, a vertex blended at
\* the outer edge and a vertex blended strictly inside the edge zone, the
\* last moved by less than the full strength.
C11_Witness ==
    /\ SmoothWrote
    /\ params.smooth_strength = Rat(1, 2)
    /\ LET box == SmoothBox
           sm == InteriorSummary(InteriorIds(box))
           D(i) == min_dist(box, X(jsonIn.v, i), Y(jsonIn.v, i))
       IN  \E i, j, k \in VertexIds(jsonIn) :
              /\ RLt(D(i), RInt(1)) /\ Z(jsonIn.v, i) > 0 /\ Replaced(sm, Z(jsonIn.v, i))
              /\ Z(jsonOut.v, i) = sm.avgElevation
              /\ D(j) = RInt(0) /\ ~Replaced(sm, Z(jsonIn.v, j))
              /\ Z(jsonOut.v, j) # RInt(Z(jsonIn.v, j))
              /\ RLt(RInt(0), D(k)) /\ RLt(D(k), RInt(1))
              /\ ~Replaced(sm, Z(jsonIn.v, k))
              /\ Z(jsonOut.v, k) # RInt(Z(jsonIn.v, k))
              /\ Z(jsonOut.v, k) # FullBlend(sm, Z(jsonIn.v, k))

====
